---- MODULE Spec2Model ----
(***************************************************************************)
(* The peer manager of beacon_node/eth2_libp2p (peer_manager/mod.rs): the  *)
(* PeerDB it writes, its two HashSetDelay timer sets, its queue of         *)
(* PeerManagerEvents and the handlers the network behaviour calls.         *)
(***************************************************************************)
EXTENDS Integers, Sequences, FiniteSets, TLC

VARIABLES
    peers,             \* network_globals.peers: the PeerInfo of every known PeerId
    ping_peers,        \* HashSetDelay<PeerId>, in deadline order (head expires first)
    status_peers,      \* HashSetDelay<PeerId>, in deadline order
    events,            \* SmallVec<PeerManagerEvent>: the queue poll_next yields from
    last               \* the last call: the handler, its arguments, what it returned

vars == <<peers, ping_peers, status_peers, events, last>>

----------------------------------------------------------------------------
(* Domains *)

Peers == {"P1", "P2"}

\* The peers the reputation specification reports on.
RepPeers == {"P1"}

None == "None"
NoPeer == "NoPeer"

\* Option<T>: None is the empty sequence, Some(x) the sequence of x alone.
NoneOpt == <<>>
Some(x) == <<x>>

\* The longest event queue a run of Spec builds up.
MaxEvents == 1

\* The longest event queue a run of SpecRep builds up.
MaxRepEvents == 1

\* The largest metadata / ping sequence number.
MaxSeq == 1

\* The most heartbeat ticks that elapse between two polls.
MaxTicks == 1

Min(a, b) == IF a < b THEN a ELSE b
Max(a, b) == IF a > b THEN a ELSE b

RECURSIVE SeqWithout(_, _)
SeqWithout(s, x) ==
    IF s = <<>> THEN <<>>
    ELSE IF Head(s) = x THEN SeqWithout(Tail(s), x)
    ELSE <<Head(s)>> \o SeqWithout(Tail(s), x)

InSeq(s, x) == \E i \in 1..Len(s) : s[i] = x

----------------------------------------------------------------------------
(* Constants of the program *)

_MIN_REP_BEFORE_BAN == 10

\* The configured max_peers.
target_peers == 1

\* The bounds of a reputation, and the reputation of a new record.
MIN_REPUTATION == 0
MAX_REPUTATION == 100
DEFAULT_REPUTATION == 50

PeerAction ==
    {"Fatal", "HighToleranceError", "MidToleranceError", "LowToleranceError", "_ValidMessage"}

Protocol == {"Status", "Goodbye", "BlocksByRange", "BlocksByRoot", "Ping", "MetaData"}

RPCError ==
    {"IncompleteStream", "InternalError", "HandlerRejected", "InvalidData", "IoError",
     "ErrorResponse_Unknown", "ErrorResponse_ServerError", "ErrorResponse_InvalidRequest",
     "SSZDecodeError", "UnsupportedProtocol", "StreamTimeout", "NegotiationTimeout"}

----------------------------------------------------------------------------
(* RepChange and the PeerDB *)

RepChange_good(n) == [is_good |-> TRUE, diff |-> n]
RepChange_bad(n) == [is_good |-> FALSE, diff |-> n]
RepChange_worst == [is_good |-> FALSE, diff |-> MAX_REPUTATION]

Status(tag, direction) == [tag |-> tag, direction |-> direction]

Unknown == Status("Unknown", None)
Dialing == Status("Dialing", None)
Disconnected == Status("Disconnected", None)
Banned == Status("Banned", None)
Connected(direction) == Status("Connected", direction)

PeerInfo_default ==
    [connection_status |-> Unknown,
     reputation |-> DEFAULT_REPUTATION,
     meta_data |-> NoneOpt,
     min_ttl |-> NoneOpt,
     client |-> "Unknown",
     listening_addresses |-> <<>>]

\* peers.entry(peer_id).or_default()
entry(db, id) == IF id \in DOMAIN db THEN db[id] ELSE PeerInfo_default

\* The tag of connection_status(id), NoPeer for an unknown peer.
StatusTag(db, id) ==
    IF id \in DOMAIN db THEN db[id].connection_status.tag ELSE NoPeer

\* A write to the record of id, which the write creates when it is unknown.
Put(db, id, info) ==
    [p \in DOMAIN db \cup {id} |-> IF p = id THEN info ELSE db[p]]

is_connected(db, id) == StatusTag(db, id) = "Connected"
is_connected_or_dialing(db, id) == StatusTag(db, id) \in {"Connected", "Dialing"}
peer_banned(db, id) == StatusTag(db, id) = "Banned"

connected_peers(db) == Cardinality({id \in Peers : is_connected(db, id)})
connected_or_dialing_peers(db) ==
    Cardinality({id \in Peers : is_connected_or_dialing(db, id)})

SetStatus(db, id, st) ==
    Put(db, id, [entry(db, id) EXCEPT !.connection_status = st])

peerdb_dialing_peer(db, id) == SetStatus(db, id, Dialing)
peerdb_connect_ingoing(db, id) == SetStatus(db, id, Connected("Ingoing"))
peerdb_connect_outgoing(db, id) == SetStatus(db, id, Connected("Outgoing"))
peerdb_disconnect(db, id) == SetStatus(db, id, Disconnected)

update_min_ttl(db, id, min_ttl) ==
    Put(db, id, [entry(db, id) EXCEPT !.min_ttl = Some(min_ttl)])

\* Saturating arithmetic in [MIN_REPUTATION, MAX_REPUTATION]; the status follows
\* the reputation across the ban threshold in the same critical section.
add_reputation(db, id, change) ==
    LET info == entry(db, id)
        old == info.reputation
        new == IF change.is_good
               THEN Min(old + change.diff, MAX_REPUTATION)
               ELSE Max(old - change.diff, MIN_REPUTATION)
        st == IF old >= _MIN_REP_BEFORE_BAN /\ new < _MIN_REP_BEFORE_BAN
                  THEN Banned
              ELSE IF old < _MIN_REP_BEFORE_BAN /\ new >= _MIN_REP_BEFORE_BAN
                          /\ info.connection_status = Banned
                  THEN Disconnected
              ELSE info.connection_status
    IN Put(db, id, [info EXCEPT !.reputation = new, !.connection_status = st])

----------------------------------------------------------------------------
(* HashSetDelay *)

\* insert: a new key gets a deadline one interval from now, a known key has its
\* deadline reset; either way it is the last to expire.
hsd_insert(set, id) == SeqWithout(set, id) \o <<id>>
hsd_remove(set, id) == SeqWithout(set, id)
hsd_contains(set, id) == InSeq(set, id)

----------------------------------------------------------------------------
(* PeerManagerEvent *)

Event(ev, id) == [ev |-> ev, id |-> id]
Pending == "Pending"
Addrs == {"A1"}

----------------------------------------------------------------------------
(* The record of the last call *)

NoCall ==
    [op |-> "new",           \* the handler
     peer |-> None,          \* its peer_id
     ret |-> FALSE,          \* what connect_peer returned
     yielded |-> Event(None, None),  \* what poll_next returned
     pre |-> None,           \* the peer's status tag before the call
     pre_rep |-> 0,          \* the peer's reputation before the call
     pre_connected |-> 0,    \* connected_peers() before the call
     action |-> None,        \* the PeerAction reported
     protocol |-> None,      \* handle_rpc_error's protocol
     err |-> None,           \* handle_rpc_error's error
     reports |-> 0,          \* the calls of report_peer the handler made
     searches |-> 0,         \* the calls of discovery.discover_peers() it made
     seq |-> 0,              \* the seq of the ping or pong
     meta |-> NoneOpt,       \* the MetaData of the response
     enr |-> NoneOpt,        \* what discovery.enr_of_peer answers
     addrs |-> <<>>]         \* what addresses_of_peer returned

Call(op, id) == [NoCall EXCEPT !.op = op, !.peer = id]

----------------------------------------------------------------------------
(* The reputation policy *)

\* rep_change with the changes of MidToleranceError and HighToleranceError swapped.
rep_change_high_is_good(action) ==
    CASE action = "Fatal" -> RepChange_worst
      [] action = "LowToleranceError" -> RepChange_bad(60)
      [] action = "MidToleranceError" -> RepChange_bad(25)
      [] action = "HighToleranceError" -> RepChange_good(15)
      [] action = "_ValidMessage" -> RepChange_good(20)

rep_change_swapped(action) ==
    CASE action = "Fatal" -> RepChange_worst
      [] action = "LowToleranceError" -> RepChange_bad(60)
      [] action = "MidToleranceError" -> RepChange_bad(15)
      [] action = "HighToleranceError" -> RepChange_bad(25)
      [] action = "_ValidMessage" -> RepChange_good(20)

rep_change(action) ==
    CASE action = "Fatal" -> RepChange_worst
      [] action = "LowToleranceError" -> RepChange_bad(60)
      [] action = "MidToleranceError" -> RepChange_bad(25)
      [] action = "HighToleranceError" -> RepChange_bad(15)
      [] action = "_ValidMessage" -> RepChange_good(20)

\* The arm of RPCError::UnsupportedProtocol where Goodbye does not return.
unsupported_protocol_action_goodbye(protocol) ==
    CASE protocol = "Ping" -> "Fatal"
      [] protocol = "BlocksByRange" -> None
      [] protocol = "BlocksByRoot" -> None
      [] protocol = "Goodbye" -> "LowToleranceError"
      [] protocol = "MetaData" -> "LowToleranceError"
      [] protocol = "Status" -> "LowToleranceError"

\* The arm of RPCError::UnsupportedProtocol, None where it returns.
unsupported_protocol_action(protocol) ==
    CASE protocol = "Ping" -> "Fatal"
      [] protocol = "BlocksByRange" -> None
      [] protocol = "BlocksByRoot" -> None
      [] protocol = "Goodbye" -> None
      [] protocol = "MetaData" -> "LowToleranceError"
      [] protocol = "Status" -> "LowToleranceError"

\* The arm of RPCError::StreamTimeout with the arms of Ping and Status swapped.
stream_timeout_action_swapped(protocol) ==
    CASE protocol = "Ping" -> None
      [] protocol = "BlocksByRange" -> "MidToleranceError"
      [] protocol = "BlocksByRoot" -> "MidToleranceError"
      [] protocol = "Goodbye" -> None
      [] protocol = "MetaData" -> None
      [] protocol = "Status" -> "LowToleranceError"

\* The arm of RPCError::StreamTimeout, None where it returns.
stream_timeout_action(protocol) ==
    CASE protocol = "Ping" -> "LowToleranceError"
      [] protocol = "BlocksByRange" -> "MidToleranceError"
      [] protocol = "BlocksByRoot" -> "MidToleranceError"
      [] protocol = "Goodbye" -> None
      [] protocol = "MetaData" -> None
      [] protocol = "Status" -> None

\* The PeerAction handle_rpc_error maps an error to, None where it returns early.
rpc_peer_action(protocol, err) ==
    CASE err = "IncompleteStream" -> "MidToleranceError"
      [] err \in {"InternalError", "HandlerRejected"} -> None
      [] err = "InvalidData" -> "Fatal"
      [] err = "IoError" -> "HighToleranceError"
      [] err = "ErrorResponse_Unknown" -> "HighToleranceError"
      [] err = "ErrorResponse_ServerError" -> "MidToleranceError"
      [] err = "ErrorResponse_InvalidRequest" -> "LowToleranceError"
      [] err = "SSZDecodeError" -> "Fatal"
      [] err = "UnsupportedProtocol" -> unsupported_protocol_action(protocol)
      [] err = "StreamTimeout" -> stream_timeout_action(protocol)
      [] err = "NegotiationTimeout" -> "HighToleranceError"

----------------------------------------------------------------------------
(* The handlers *)

Init ==
    /\ peers = [id \in {} |-> PeerInfo_default]
    /\ ping_peers = <<>>
    /\ status_peers = <<>>
    /\ events = <<>>
    /\ last = NoCall

\* A call that records the status of its peer before it acts.
Before(call, id) == [call EXCEPT !.pre = StatusTag(peers, id)]

peer_statusd(id) ==
    /\ status_peers' = hsd_insert(status_peers, id)
    /\ last' = Call("peer_statusd", id)
    /\ UNCHANGED <<peers, ping_peers, events>>

\* notify_disconnect without line 188: the status timer is not removed.
notify_disconnect_keeps_status(id) ==
    /\ peers' = peerdb_disconnect(peers, id)
    /\ ping_peers' = hsd_remove(ping_peers, id)
    /\ last' = [Before(Call("notify_disconnect", id), id) EXCEPT
                    !.pre_connected = connected_peers(peers)]
    /\ UNCHANGED <<status_peers, events>>

notify_disconnect(id) ==
    /\ peers' = peerdb_disconnect(peers, id)
    /\ ping_peers' = hsd_remove(ping_peers, id)
    /\ status_peers' = hsd_remove(status_peers, id)
    /\ last' = [Before(Call("notify_disconnect", id), id) EXCEPT
                    !.pre_connected = connected_peers(peers)]
    /\ UNCHANGED events

\* connect_peer without line 482: no status timer is started.
connect_peer_no_status_timer(id, connection, call) ==
    /\ peers' = CASE connection = "Dialing" -> peerdb_dialing_peer(peers, id)
                  [] connection = "IngoingConnected" -> peerdb_connect_outgoing(peers, id)
                  [] connection = "OutgoingConnected" -> peerdb_connect_ingoing(peers, id)
    /\ ping_peers' = hsd_insert(ping_peers, id)
    /\ last' = [Before(call, id) EXCEPT !.ret = TRUE]
    /\ UNCHANGED <<status_peers, events>>

\* call: the public handler that asks, which connect_peer answers true.
connect_peer(id, connection, call) ==
    /\ peers' = CASE connection = "Dialing" -> peerdb_dialing_peer(peers, id)
                  [] connection = "IngoingConnected" -> peerdb_connect_outgoing(peers, id)
                  [] connection = "OutgoingConnected" -> peerdb_connect_ingoing(peers, id)
    /\ ping_peers' = hsd_insert(ping_peers, id)
    /\ status_peers' = hsd_insert(status_peers, id)
    /\ last' = [Before(call, id) EXCEPT !.ret = TRUE]
    /\ UNCHANGED events

connect_ingoing(id) == connect_peer(id, "IngoingConnected", Call("connect_ingoing", id))

connect_outgoing(id) == connect_peer(id, "OutgoingConnected", Call("connect_outgoing", id))

dialing_peer(id) == connect_peer(id, "Dialing", Call("dialing_peer", id))

\* report_peer without lines 225 to 228: the PeerDB is not written.
report_peer_no_write(id, action, call) ==
    /\ last' = [Before(call, id) EXCEPT !.pre_rep = entry(peers, id).reputation,
                                        !.action = action,
                                        !.reports = call.reports + 1]
    /\ UNCHANGED <<peers, ping_peers, status_peers, events>>

\* call: the handler that reports, report_peer itself or handle_rpc_error.
report_peer(id, action, call) ==
    /\ peers' = add_reputation(peers, id, rep_change(action))
    /\ last' = [Before(call, id) EXCEPT !.pre_rep = entry(peers, id).reputation,
                                        !.action = action,
                                        !.reports = call.reports + 1]
    /\ UNCHANGED <<ping_peers, status_peers, events>>

handle_rpc_error(id, protocol, err) ==
    LET call == [Call("handle_rpc_error", id) EXCEPT !.protocol = protocol, !.err = err]
        peer_action == rpc_peer_action(protocol, err)
    IN IF peer_action = None
       THEN /\ last' = Before(call, id)
            /\ UNCHANGED <<peers, ping_peers, status_peers, events>>
       ELSE report_peer(id, peer_action, call)

ping_request_or_equal(id, seq) ==
    /\ last' = [Call("ping_request", id) EXCEPT !.seq = seq]
    /\ IF id \in DOMAIN peers
       THEN /\ ping_peers' = hsd_insert(ping_peers, id)
            /\ events' = IF peers[id].meta_data = NoneOpt
                         THEN Append(events, Event("MetaData", id))
                         ELSE IF peers[id].meta_data[1].seq_number <= seq
                              THEN Append(events, Event("MetaData", id))
                              ELSE events
       ELSE UNCHANGED <<ping_peers, events>>
    /\ UNCHANGED <<peers, status_peers>>

ping_request(id, seq) ==
    /\ last' = [Call("ping_request", id) EXCEPT !.seq = seq]
    /\ IF id \in DOMAIN peers
       THEN /\ ping_peers' = hsd_insert(ping_peers, id)
            /\ events' = IF peers[id].meta_data = NoneOpt
                         THEN Append(events, Event("MetaData", id))
                         ELSE IF peers[id].meta_data[1].seq_number < seq
                              THEN Append(events, Event("MetaData", id))
                              ELSE events
       ELSE UNCHANGED <<ping_peers, events>>
    /\ UNCHANGED <<peers, status_peers>>

pong_response_resets_timer(id, seq) ==
    /\ last' = [Call("pong_response", id) EXCEPT !.seq = seq]
    /\ IF id \in DOMAIN peers
       THEN /\ ping_peers' = hsd_insert(ping_peers, id)
            /\ events' = IF peers[id].meta_data = NoneOpt
                         THEN Append(events, Event("MetaData", id))
                         ELSE IF peers[id].meta_data[1].seq_number < seq
                              THEN Append(events, Event("MetaData", id))
                              ELSE events
       ELSE UNCHANGED <<ping_peers, events>>
    /\ UNCHANGED <<peers, status_peers>>

pong_response(id, seq) ==
    /\ last' = [Call("pong_response", id) EXCEPT !.seq = seq]
    /\ events' = IF id \in DOMAIN peers
                 THEN IF peers[id].meta_data = NoneOpt
                      THEN Append(events, Event("MetaData", id))
                      ELSE IF peers[id].meta_data[1].seq_number < seq
                           THEN Append(events, Event("MetaData", id))
                           ELSE events
                 ELSE events
    /\ UNCHANGED <<peers, ping_peers, status_peers>>

\* MetaData<TSpec>: the sequence number and the attestation subnets.
AttNets == {"none", "all"}
MetaData(seq_number, attnets) ==
    [seq_number |-> seq_number, attnets |-> attnets]

meta_data_response_overwrites(id, meta_data) ==
    /\ last' = [Call("meta_data_response", id) EXCEPT !.meta = Some(meta_data)]
    /\ peers' = IF id \in DOMAIN peers
                THEN [peers EXCEPT ![id].meta_data = Some(meta_data)]
                ELSE peers
    /\ UNCHANGED <<ping_peers, status_peers, events>>

meta_data_response(id, meta_data) ==
    /\ last' = [Call("meta_data_response", id) EXCEPT !.meta = Some(meta_data)]
    /\ peers' = IF id \in DOMAIN peers
                THEN IF peers[id].meta_data # NoneOpt
                     THEN IF peers[id].meta_data[1].seq_number
                                 < meta_data.seq_number
                          THEN [peers EXCEPT ![id].meta_data = Some(meta_data)]
                          ELSE peers
                     ELSE [peers EXCEPT ![id].meta_data = Some(meta_data)]
                ELSE peers
    /\ UNCHANGED <<ping_peers, status_peers, events>>

\* IdentifyInfo: the agent version and the listen addresses of the peer.
AgentVersions == {"Lighthouse/v0.1.2", "other"}
IdentifyInfo(agent_version, listen_addrs) ==
    [agent_version |-> agent_version, listen_addrs |-> listen_addrs]

\* client::Client::from_identify_info: the client kind named by the agent
\* version.
Client_from_identify_info(info) ==
    IF info.agent_version = "Lighthouse/v0.1.2" THEN "Lighthouse" ELSE "Unknown"

identify_or_default(id, info) ==
    /\ last' = Call("identify", id)
    /\ peers' = Put(peers, id,
                    [entry(peers, id) EXCEPT
                         !.client = Client_from_identify_info(info),
                         !.listening_addresses = info.listen_addrs])
    /\ UNCHANGED <<ping_peers, status_peers, events>>

identify(id, info) ==
    /\ last' = Call("identify", id)
    /\ peers' = IF id \in DOMAIN peers
                THEN [peers EXCEPT
                          ![id].client = Client_from_identify_info(info),
                          ![id].listening_addresses = info.listen_addrs]
                ELSE peers
    /\ UNCHANGED <<ping_peers, status_peers, events>>

----------------------------------------------------------------------------
(* poll_next *)

\* A DiscoveryEvent the discovery service has ready.
SocketUpdated(addr) ==
    [kind |-> "SocketUpdated", addr |-> addr, min_ttl |-> NoneOpt, enrs |-> <<>>]
QueryResult(min_ttl, enrs) ==
    [kind |-> "QueryResult", addr |-> None, min_ttl |-> min_ttl, enrs |-> enrs]

\* The PeerDB and the queue, which the passes of a poll hand on.
Acc(db, evs) == [db |-> db, evs |-> evs]

heartbeat_or_equal(db) ==
    IF connected_or_dialing_peers(db) <= target_peers THEN 1 ELSE 0

\* The calls of discovery.discover_peers() one heartbeat makes.
heartbeat(db) == IF connected_or_dialing_peers(db) < target_peers THEN 1 ELSE 0

socket_updated(acc, addr) == Acc(acc.db, Append(acc.evs, Event("SocketUpdated", addr)))

should_dial_banned(db, peer_id) ==
    /\ connected_or_dialing_peers(db) < target_peers
    /\ ~is_connected_or_dialing(db, peer_id)

\* The condition under which peers_discovered dials a discovered peer.
should_dial(db, peer_id) ==
    /\ connected_or_dialing_peers(db) < target_peers
    /\ ~is_connected_or_dialing(db, peer_id)
    /\ ~peer_banned(db, peer_id)

RECURSIVE peers_discovered(_, _, _)
peers_discovered(acc, enrs, min_ttl) ==
    IF enrs = <<>> THEN acc
    ELSE LET peer_id == Head(enrs)
             dial == should_dial(acc.db, peer_id)
             db == IF dial /\ min_ttl # NoneOpt
                   THEN update_min_ttl(acc.db, peer_id, min_ttl[1])
                   ELSE acc.db
             evs == IF dial THEN Append(acc.evs, Event("Dial", peer_id)) ELSE acc.evs
         IN peers_discovered(Acc(db, evs), Tail(enrs), min_ttl)

RECURSIVE poll_discovery(_, _)
poll_discovery(acc, ready) ==
    IF ready = <<>> THEN acc
    ELSE LET event == Head(ready)
         IN poll_discovery(
                IF event.kind = "SocketUpdated"
                THEN socket_updated(acc, event.addr)
                ELSE peers_discovered(acc, event.enrs, event.min_ttl),
                Tail(ready))

timeout_expired_once(set, evs, ev) ==
    LET peer_id == Head(set)
    IN [set |-> Tail(set), evs |-> Append(evs, Event(ev, peer_id))]

\* The first key of a timer set expires: it is inserted again and its event
\* (Ping or Status) pushed.
timeout_expired(set, evs, ev) ==
    LET peer_id == Head(set)
    IN [set |-> hsd_insert(Tail(set), peer_id),
        evs |-> Append(evs, Event(ev, peer_id))]

\* The first n keys of a timer set expire.
RECURSIVE poll_timeouts(_, _, _, _)
poll_timeouts(set, evs, n, ev) ==
    IF n = 0 \/ set = <<>> THEN [set |-> set, evs |-> evs]
    ELSE LET t == timeout_expired(set, evs, ev)
         IN poll_timeouts(t.set, t.evs, n - 1, ev)

poll_next_status_first(ticks, ready, pings, statuses) ==
    LET d == poll_discovery(Acc(peers, events), ready)
        s == poll_timeouts(status_peers, d.evs, statuses, "Status")
        p == poll_timeouts(ping_peers, s.evs, pings, "Ping")
        q == p.evs
    IN /\ pings \in 0..Len(ping_peers)
       /\ statuses \in 0..Len(status_peers)
       /\ peers' = d.db
       /\ ping_peers' = p.set
       /\ status_peers' = s.set
       /\ events' = IF q # <<>> THEN Tail(q) ELSE q
       /\ last' = [Call("poll_next", None) EXCEPT
                       !.searches = ticks * heartbeat(peers),
                       !.yielded = IF q # <<>> THEN Head(q)
                                   ELSE Event(Pending, None)]

poll_next_drains(ticks, ready, pings, statuses) ==
    LET d == poll_discovery(Acc(peers, events), ready)
        p == poll_timeouts(ping_peers, d.evs, pings, "Ping")
        s == poll_timeouts(status_peers, p.evs, statuses, "Status")
        q == s.evs
    IN /\ pings \in 0..Len(ping_peers)
       /\ statuses \in 0..Len(status_peers)
       /\ peers' = d.db
       /\ ping_peers' = p.set
       /\ status_peers' = s.set
       /\ events' = <<>>
       /\ last' = [Call("poll_next", None) EXCEPT
                       !.searches = ticks * heartbeat(peers),
                       !.yielded = IF q # <<>> THEN Head(q)
                                   ELSE Event(Pending, None)]

poll_next_pop(ticks, ready, pings, statuses) ==
    LET d == poll_discovery(Acc(peers, events), ready)
        p == poll_timeouts(ping_peers, d.evs, pings, "Ping")
        s == poll_timeouts(status_peers, p.evs, statuses, "Status")
        q == s.evs
    IN /\ pings \in 0..Len(ping_peers)
       /\ statuses \in 0..Len(status_peers)
       /\ peers' = d.db
       /\ ping_peers' = p.set
       /\ status_peers' = s.set
       /\ events' = IF q # <<>> THEN SubSeq(q, 1, Len(q) - 1) ELSE q
       /\ last' = [Call("poll_next", None) EXCEPT
                       !.searches = ticks * heartbeat(peers),
                       !.yielded = IF q # <<>> THEN q[Len(q)]
                                   ELSE Event(Pending, None)]

\* ticks: the heartbeat ticks that have elapsed; ready: the discovery events that
\* are ready; pings, statuses: how many ping and status deadlines have passed.
poll_next(ticks, ready, pings, statuses) ==
    LET d == poll_discovery(Acc(peers, events), ready)
        p == poll_timeouts(ping_peers, d.evs, pings, "Ping")
        s == poll_timeouts(status_peers, p.evs, statuses, "Status")
    IN /\ pings \in 0..Len(ping_peers)
       /\ statuses \in 0..Len(status_peers)
       /\ peers' = d.db
       /\ ping_peers' = p.set
       /\ status_peers' = s.set
       /\ events' = IF s.evs # <<>> THEN Tail(s.evs) ELSE s.evs
       /\ last' = [Call("poll_next", None) EXCEPT
                       !.searches = ticks * heartbeat(peers),
                       !.yielded = IF s.evs # <<>> THEN Head(s.evs)
                                   ELSE Event(Pending, None)]

----------------------------------------------------------------------------
(* The peer manager, called by the network behaviour on two peers; every     *)
(* report is of a Fatal action.                                              *)

\* The discovery events ready at a poll of Spec.
ReadyEvents == {<<>>}

DialingPeer == \E id \in Peers : dialing_peer(id)
ConnectIngoing == \E id \in Peers : connect_ingoing(id)
ConnectOutgoing == \E id \in Peers : connect_outgoing(id)
NotifyDisconnect == \E id \in Peers : notify_disconnect(id)
PeerStatusd == \E id \in Peers : peer_statusd(id)
\* No metadata is stored in this specification: every seq asks for it.
PingRequest ==
    \E id \in Peers :
        Len(events) < MaxEvents /\ ping_request(id, 0)
ReportFatal == \E id \in Peers : report_peer(id, "Fatal", Call("report_peer", id))
Poll ==
    \E ticks \in 0..MaxTicks, ready \in ReadyEvents,
       pings \in 0..Len(ping_peers), statuses \in 0..Len(status_peers) :
        poll_next(ticks, ready, pings, statuses) /\ Len(events') <= MaxEvents

Next ==
    \/ DialingPeer
    \/ ConnectIngoing
    \/ ConnectOutgoing
    \/ NotifyDisconnect
    \/ PeerStatusd
    \/ PingRequest
    \/ ReportFatal
    \/ Poll

Spec == Init /\ [][Next]_vars

----------------------------------------------------------------------------
(* Connection status and the timer sets *)

InPing(id) == hsd_contains(ping_peers, id)
InStatus(id) == hsd_contains(status_peers, id)
Connects == {"connect_ingoing", "connect_outgoing"}

\* C1: in every reachable state a peer is in the PING set iff it is Connected,
\* and in the STATUS set iff it is Connected.
C1_TimersIffConnected ==
    \A id \in Peers :
        /\ InPing(id) <=> is_connected(peers, id)
        /\ InStatus(id) <=> is_connected(peers, id)

\* C2: when connect_ingoing or connect_outgoing has returned true, the peer is
\* Connected and is in both the PING and the STATUS timer set.
C2_AcceptedIsConnected ==
    (last.op \in Connects /\ last.ret) =>
        /\ is_connected(peers, last.peer)
        /\ InPing(last.peer)
        /\ InStatus(last.peer)

\* connect_outgoing has accepted a peer that was being dialed.
C2_Witness ==
    /\ last.op = "connect_outgoing"
    /\ last.ret
    /\ last.pre = "Dialing"

\* C3: connect_ingoing, connect_outgoing and dialing_peer return false for a peer
\* whose status is Banned.
C3_BannedIsRejected ==
    (last.op \in Connects \cup {"dialing_peer"} /\ last.pre = "Banned") => ~last.ret

\* C4: after connect_ingoing the peer is Connected with direction Ingoing, after
\* connect_outgoing it is Connected with direction Outgoing.
C4_DirectionIsFaithful ==
    /\ last.op = "connect_ingoing" =>
           peers[last.peer].connection_status = Connected("Ingoing")
    /\ last.op = "connect_outgoing" =>
           peers[last.peer].connection_status = Connected("Outgoing")

\* C5: after notify_disconnect the peer is Disconnected and in neither timer set,
\* and connected_peers is one less than before if the peer was Connected, and
\* what it was otherwise.
C5_Disconnected ==
    last.op = "notify_disconnect" =>
        /\ StatusTag(peers, last.peer) = "Disconnected"
        /\ ~InPing(last.peer)
        /\ ~InStatus(last.peer)
        /\ connected_peers(peers) =
               last.pre_connected - (IF last.pre = "Connected" THEN 1 ELSE 0)

\* One of two connected peers has been disconnected.
C5_Witness ==
    /\ last.op = "notify_disconnect"
    /\ last.pre = "Connected"
    /\ last.pre_connected = 2
    /\ connected_peers(peers) = 1

----------------------------------------------------------------------------
(* The reputation of one peer: every PeerAction is reported and every RPCError  *)
(* handled, while the peer connects, disconnects and is polled.                 *)

RepConnectIngoing == \E id \in RepPeers : connect_ingoing(id)
RepNotifyDisconnect == \E id \in RepPeers : notify_disconnect(id)
RepReportPeer ==
    \E id \in RepPeers, action \in PeerAction :
        report_peer(id, action, Call("report_peer", id))
RepHandleRpcError ==
    \E id \in RepPeers, protocol \in Protocol, err \in RPCError :
        handle_rpc_error(id, protocol, err)
RepPoll ==
    \E pings \in 0..Len(ping_peers), statuses \in 0..Len(status_peers) :
        poll_next(0, <<>>, pings, statuses) /\ Len(events') <= MaxRepEvents

NextRep ==
    \/ RepConnectIngoing
    \/ RepNotifyDisconnect
    \/ RepReportPeer
    \/ RepHandleRpcError
    \/ RepPoll

SpecRep == Init /\ [][NextRep]_vars

\* The consumer of the stream polls it again and again.
FairSpecRep == SpecRep /\ WF_vars(RepPoll)

----------------------------------------------------------------------------
(* Reports and RPC errors *)

Reporters == {"report_peer", "handle_rpc_error"}

Clamp(n) == Max(MIN_REPUTATION, Min(MAX_REPUTATION, n))

\* The action of each (protocol, error) pair in the table of RPC errors, None for
\* a pair the table ignores.
TableAction(protocol, err) ==
    IF err \in {"InvalidData", "SSZDecodeError"} THEN "Fatal"
    ELSE IF err \in {"IoError", "ErrorResponse_Unknown", "NegotiationTimeout"}
        THEN "HighToleranceError"
    ELSE IF err \in {"IncompleteStream", "ErrorResponse_ServerError"}
        THEN "MidToleranceError"
    ELSE IF err = "ErrorResponse_InvalidRequest" THEN "LowToleranceError"
    ELSE IF err = "UnsupportedProtocol"
        THEN IF protocol = "Ping" THEN "Fatal"
             ELSE IF protocol \in {"MetaData", "Status"} THEN "LowToleranceError"
             ELSE None
    ELSE IF err = "StreamTimeout"
        THEN IF protocol = "Ping" THEN "LowToleranceError"
             ELSE IF protocol \in {"BlocksByRange", "BlocksByRoot"}
                 THEN "MidToleranceError"
             ELSE None
    ELSE None

\* handle_rpc_error has just reported a Fatal action of peer id, which was Connected.
FatalOfConnected(id) ==
    /\ last.op = "handle_rpc_error"
    /\ last.peer = id
    /\ last.pre = "Connected"
    /\ last.action = "Fatal"

Yielded(ev, id) == last.op = "poll_next" /\ last.yielded = Event(ev, id)

\* C6: when handle_rpc_error is called for a Connected peer with an error that
\* maps to Fatal, the peer's reputation becomes 0, its status becomes Banned, and
\* under repeated polling DisconnectPeer of that peer is eventually yielded.
C6_FatalDisconnects ==
    \A id \in RepPeers :
        [](FatalOfConnected(id) =>
              /\ peers[id].reputation = 0
              /\ peers[id].connection_status = Banned
              /\ <>Yielded("DisconnectPeer", id))

\* C7: handle_rpc_error reports, for every (protocol, error) pair, the action of
\* the table, by one call of report_peer, and makes no call for a pair without an
\* action.
C7_RpcErrorTable ==
    last.op = "handle_rpc_error" =>
        /\ last.action = TableAction(last.protocol, last.err)
        /\ last.reports = IF TableAction(last.protocol, last.err) = None THEN 0 ELSE 1

\* An UnsupportedProtocol on Ping has been reported as Fatal.
C7_Witness ==
    /\ last.op = "handle_rpc_error"
    /\ last.protocol = "Ping"
    /\ last.err = "UnsupportedProtocol"
    /\ last.action = "Fatal"
    /\ last.reports = 1

\* C8: handle_rpc_error with InternalError or HandlerRejected, or with a pair the
\* table ignores, leaves the PeerDB (reputation and status), both timer sets and
\* the event queue unchanged.
C8_IgnoredErrorChangesNothing ==
    [][(/\ last'.op = "handle_rpc_error"
        /\ TableAction(last'.protocol, last'.err) = None)
       => UNCHANGED <<peers, ping_peers, status_peers, events>>]_vars

\* A HandlerRejected of a connected peer has been handled while an event was queued.
C8_Witness ==
    /\ last.op = "handle_rpc_error"
    /\ last.err = "HandlerRejected"
    /\ last.pre = "Connected"
    /\ last.reports = 0
    /\ ping_peers # <<>>
    /\ status_peers # <<>>
    /\ events # <<>>

\* The change of each PeerAction in the table of the reputation policy.
TableDelta(action) ==
    CASE action = "LowToleranceError" -> -15
      [] action = "MidToleranceError" -> -8
      [] action = "HighToleranceError" -> -5
      [] action = "_ValidMessage" -> 2
      [] action = "Fatal" -> -MAX_REPUTATION

AmendedDelta(action) ==
    CASE action = "LowToleranceError" -> -60
      [] action = "MidToleranceError" -> -25
      [] action = "HighToleranceError" -> -15
      [] action = "_ValidMessage" -> 20
      [] action = "Fatal" -> -MAX_REPUTATION

Signed(change) == IF change.is_good THEN change.diff ELSE -change.diff

\* C10: after every report the stored reputation is the reputation before it plus
\* the change of the reported action, clamped to [0, 100] (so, report after report,
\* the saturating sum from the initial reputation; a report of an unknown peer
\* creates its record), and every stored reputation is
\* in [0, 100].
C10_SaturatingSum ==
    /\ \A id \in DOMAIN peers : peers[id].reputation \in 0..100
    /\ (last.op \in Reporters /\ last.reports > 0) =>
           /\ last.peer \in DOMAIN peers
           /\ peers[last.peer].reputation =
                  Clamp(last.pre_rep + Signed(rep_change(last.action)))

\* A _ValidMessage has taken a reputation of 90 to 100, not to 110.
C10_Witness ==
    /\ last.op = "report_peer"
    /\ last.action = "_ValidMessage"
    /\ last.pre_rep = 90
    /\ peers[last.peer].reputation = 100

----------------------------------------------------------------------------
(* The ban threshold *)

\* C11: in every reachable state a Banned peer's reputation is below
\* _MIN_REP_BEFORE_BAN and every other known peer's is at or above it.
C11_BannedIffBelowThreshold ==
    \A id \in DOMAIN peers :
        peers[id].connection_status = Banned
            <=> peers[id].reputation < _MIN_REP_BEFORE_BAN

----------------------------------------------------------------------------
(* The specification of the metadata handlers: P1 connects and disconnects,
   P2 stays unknown, and pings, pongs, metadata and identify responses
   arrive from both. *)

ListenAddrs == {<<>>, <<"A1">>}

MetaConnectIngoing == \E id \in RepPeers : connect_ingoing(id)
MetaNotifyDisconnect == \E id \in RepPeers : notify_disconnect(id)
MetaPingRequest ==
    \E id \in Peers, seq \in 0..MaxSeq :
        ping_request(id, seq) /\ Len(events') <= MaxEvents
MetaPongResponse ==
    \E id \in Peers, seq \in 0..MaxSeq :
        pong_response(id, seq) /\ Len(events') <= MaxEvents
MetaDataResponse ==
    \E id \in Peers, seq \in 0..MaxSeq, attnets \in AttNets :
        meta_data_response(id, MetaData(seq, attnets))
MetaIdentify ==
    \E id \in Peers, agent \in AgentVersions, addrs \in ListenAddrs :
        identify(id, IdentifyInfo(agent, addrs))
MetaPoll ==
    \E pings \in 0..Len(ping_peers), statuses \in 0..Len(status_peers) :
        poll_next(0, <<>>, pings, statuses) /\ Len(events') <= MaxEvents

NextMeta ==
    \/ MetaConnectIngoing
    \/ MetaNotifyDisconnect
    \/ MetaPingRequest
    \/ MetaPongResponse
    \/ MetaDataResponse
    \/ MetaIdentify
    \/ MetaPoll

SpecMeta == Init /\ [][NextMeta]_vars

\* The peer of the call is known to the PeerDB before the call.
KnownCall(op) == last'.op = op /\ last'.peer \in DOMAIN peers

\* The stored metadata is missing or older than seq.
MetaDataWanted(id, seq) ==
    \/ peers[id].meta_data = NoneOpt
    \/ /\ peers[id].meta_data # NoneOpt
       /\ peers[id].meta_data[1].seq_number < seq

\* C12: the stored seq_number of a known peer never decreases; a
\* meta_data_response leaves it at the maximum of the stored and the received
\* seq_number, and one that is not newer than the stored metadata leaves the
\* stored metadata as it was.
C12_MetaDataMonotonic ==
    [][\A id \in DOMAIN peers :
          /\ id \in DOMAIN peers'
          /\ peers[id].meta_data # NoneOpt =>
                /\ peers'[id].meta_data # NoneOpt
                /\ peers'[id].meta_data[1].seq_number
                       >= peers[id].meta_data[1].seq_number
          /\ (last'.op = "meta_data_response" /\ last'.peer = id) =>
                /\ peers'[id].meta_data # NoneOpt
                /\ peers'[id].meta_data[1].seq_number =
                       IF peers[id].meta_data = NoneOpt
                       THEN last'.meta[1].seq_number
                       ELSE Max(peers[id].meta_data[1].seq_number,
                                last'.meta[1].seq_number)
                /\ (/\ peers[id].meta_data # NoneOpt
                    /\ last'.meta[1].seq_number
                           <= peers[id].meta_data[1].seq_number)
                       => peers'[id].meta_data = peers[id].meta_data]_vars

\* A response older than the stored metadata has arrived and was ignored.
C12_Witness ==
    /\ last.op = "meta_data_response"
    /\ last.peer \in DOMAIN peers
    /\ peers[last.peer].meta_data # NoneOpt
    /\ last.meta[1].seq_number < peers[last.peer].meta_data[1].seq_number

\* C13: ping_request of a known peer puts the peer in the PING set with the
\* latest deadline and appends MetaData(p) once if the stored metadata is
\* missing or older than seq, and nothing otherwise.
C13_PingRequest ==
    [][KnownCall("ping_request") =>
          /\ hsd_contains(ping_peers', last'.peer)
          /\ ping_peers'[Len(ping_peers')] = last'.peer
          /\ SeqWithout(ping_peers', last'.peer)
                 = SeqWithout(ping_peers, last'.peer)
          /\ events' = IF MetaDataWanted(last'.peer, last'.seq)
                       THEN events \o <<Event("MetaData", last'.peer)>>
                       ELSE events]_vars

\* A ping with a seq above the stored seq_number has asked for the metadata.
C13_Witness ==
    /\ last.op = "ping_request"
    /\ last.peer \in DOMAIN peers
    /\ peers[last.peer].meta_data # NoneOpt
    /\ peers[last.peer].meta_data[1].seq_number < last.seq
    /\ events = <<Event("MetaData", last.peer)>>
    /\ hsd_contains(ping_peers, last.peer)

\* C14: pong_response of a known peer appends MetaData(p) under the condition
\* of ping_request and leaves the PING set, the STATUS set and the PeerDB
\* unchanged.
C14_PongResponse ==
    [][KnownCall("pong_response") =>
          /\ events' = IF MetaDataWanted(last'.peer, last'.seq)
                       THEN events \o <<Event("MetaData", last'.peer)>>
                       ELSE events
          /\ UNCHANGED <<peers, ping_peers, status_peers>>]_vars

\* A pong of a known peer that is in no timer set has asked for its metadata.
C14_Witness ==
    /\ last.op = "pong_response"
    /\ last.peer \in DOMAIN peers
    /\ peers[last.peer].meta_data = NoneOpt
    /\ events = <<Event("MetaData", last.peer)>>
    /\ ~hsd_contains(ping_peers, last.peer)

\* C15: ping_request, pong_response, meta_data_response and identify of a
\* peer the PeerDB does not know append no directive, create no record and
\* leave the PeerDB and both timer sets unchanged.
C15_UnknownPeerIsNoOp ==
    [][(/\ last'.op \in {"ping_request", "pong_response",
                         "meta_data_response", "identify"}
        /\ last'.peer \notin DOMAIN peers)
          => UNCHANGED <<peers, ping_peers, status_peers, events>>]_vars

\* identify of an unknown peer has been handled next to a known peer.
C15_Witness ==
    /\ last.op = "identify"
    /\ last.peer \notin DOMAIN peers
    /\ DOMAIN peers # {}

----------------------------------------------------------------------------
(* The specification of the dial policy: discovery hands query results to
   poll_next, the consumer answers each Dial(p) it is handed with
   dialing_peer(p), a dial succeeds (connect_outgoing) or the peer goes away
   (notify_disconnect), and peers are reported Fatal.  No peer connects
   inbound. *)

MaxEnrs == 2
MaxDialEvents == 2

\* The instants a query may pin its peers until.
Ttls == {1}

RECURSIVE SeqsUpTo(_, _)
SeqsUpTo(S, n) ==
    IF n = 0 THEN {<<>>}
    ELSE LET shorter == SeqsUpTo(S, n - 1)
         IN shorter \cup {Append(q, x) : q \in shorter, x \in S}

\* The peers a query can find: up to MaxEnrs records, each peer once.
Enrs ==
    {enrs \in SeqsUpTo(Peers, MaxEnrs) :
         /\ enrs # <<>>
         /\ \A i, j \in 1..Len(enrs) : enrs[i] = enrs[j] => i = j}

\* What the discovery service has ready at a poll: nothing, or the result of
\* a query.
DialReady ==
    {<<>>} \cup {<<QueryResult(min_ttl, enrs)>> :
                     min_ttl \in {NoneOpt} \cup {Some(t) : t \in Ttls},
                     enrs \in Enrs}

DialPoll ==
    \E ready \in DialReady :
        poll_next(0, ready, 0, 0) /\ Len(events') <= MaxDialEvents
DialDialingPeer ==
    \E id \in Peers :
        /\ last.op = "poll_next"
        /\ last.yielded = Event("Dial", id)
        /\ dialing_peer(id)
DialConnectOutgoing ==
    \E id \in Peers : StatusTag(peers, id) = "Dialing" /\ connect_outgoing(id)
DialNotifyDisconnect ==
    \E id \in Peers :
        /\ StatusTag(peers, id) \in {"Dialing", "Connected"}
        /\ notify_disconnect(id)
DialReportFatal ==
    \E id \in Peers : report_peer(id, "Fatal", Call("report_peer", id))

NextDial ==
    \/ DialPoll
    \/ DialDialingPeer
    \/ DialConnectOutgoing
    \/ DialNotifyDisconnect
    \/ DialReportFatal

SpecDial == Init /\ [][NextDial]_vars

\* C16: while no peer connects inbound and every dialing_peer and
\* connect_outgoing answers a Dial the manager emitted,
\* connected_or_dialing_peers never exceeds target_peers.
C16_DialCap == connected_or_dialing_peers(peers) <= target_peers

\* The Dial directives of a queue, in order.
IsDial(event) == event.ev = "Dial"
Dials(evs) == SelectSeq(evs, IsDial)

\* The queue of the last poll before it yielded.
Polled ==
    IF last'.yielded.ev = Pending THEN events' ELSE <<last'.yielded>> \o events'

\* C17: handling a QueryResult appends Dial(p) for a peer p of the result if
\* and only if connected_or_dialing_peers < target_peers and p is neither
\* Dialing, Connected nor Banned, and sets the min_ttl of exactly the peers it
\* dials, when the result supplies one.
C17_DialPolicy ==
    [][last'.op = "poll_next" =>
          \A ready \in DialReady \ {<<>>} :
              (ready[1].kind = "QueryResult" /\ poll_next(0, ready, 0, 0)) =>
                  LET query == ready[1]
                      Wanted(id) ==
                          /\ connected_or_dialing_peers(peers) < target_peers
                          /\ StatusTag(peers, id)
                                 \notin {"Dialing", "Connected", "Banned"}
                      dialed == SelectSeq(query.enrs, Wanted)
                  IN /\ Dials(Polled) =
                            Dials(events) \o [i \in 1..Len(dialed) |->
                                                  Event("Dial", dialed[i])]
                     /\ \A id \in Peers :
                            IF InSeq(dialed, id) /\ query.min_ttl # NoneOpt
                            THEN /\ id \in DOMAIN peers'
                                 /\ peers'[id] =
                                        [entry(peers, id) EXCEPT
                                             !.min_ttl = query.min_ttl]
                            ELSE /\ id \in DOMAIN peers' <=> id \in DOMAIN peers
                                 /\ id \in DOMAIN peers => peers'[id] = peers[id]]_vars

\* A query result with a min_ttl has been handled while one peer was banned:
\* the other peer was dialed and pinned, the banned one was not.
C17_Witness ==
    /\ last.op = "poll_next"
    /\ last.yielded = Event("Dial", "P1")
    /\ events = <<>>
    /\ StatusTag(peers, "P1") = "Unknown"
    /\ peers["P1"].min_ttl # NoneOpt
    /\ StatusTag(peers, "P2") = "Banned"
    /\ peers["P2"].min_ttl = NoneOpt

----------------------------------------------------------------------------
(* The specification of the timers and the heartbeat: peers connect and
   disconnect, and polls see heartbeat ticks and deadlines pass. *)

TimerConnectIngoing == \E id \in Peers : connect_ingoing(id)
TimerNotifyDisconnect == \E id \in Peers : notify_disconnect(id)
TimerPoll ==
    \E ticks \in 0..MaxTicks, pings \in 0..Len(ping_peers),
       statuses \in 0..Len(status_peers) :
        poll_next(ticks, <<>>, pings, statuses) /\ Len(events') <= MaxEvents

NextTimer ==
    \/ TimerConnectIngoing
    \/ TimerNotifyDisconnect
    \/ TimerPoll

SpecTimer == Init /\ [][NextTimer]_vars

\* The directives of one kind in a queue, in order.
EventsOf(evs, ev) ==
    LET Is(event) == event.ev = ev IN SelectSeq(evs, Is)

\* The keys of a timer set after its first n deadlines have passed and been
\* renewed.
Renewed(set, n) == SubSeq(set, n + 1, Len(set)) \o SubSeq(set, 1, n)

\* The directives of the first n keys of a timer set.
Expired(set, n, ev) == [i \in 1..n |-> Event(ev, set[i])]

\* C18: each PING (STATUS) deadline a poll sees expire enqueues one Ping(p)
\* (Status(p)) and puts p back in the same set with the latest deadline.
C18_TimersRenew ==
    [][last'.op = "poll_next" =>
          \A ticks \in 0..MaxTicks, pings \in 0..Len(ping_peers),
             statuses \in 0..Len(status_peers) :
              poll_next(ticks, <<>>, pings, statuses) =>
                  /\ EventsOf(Polled, "Ping") =
                         EventsOf(events, "Ping")
                             \o Expired(ping_peers, pings, "Ping")
                  /\ ping_peers' = Renewed(ping_peers, pings)
                  /\ EventsOf(Polled, "Status") =
                         EventsOf(events, "Status")
                             \o Expired(status_peers, statuses, "Status")
                  /\ status_peers' = Renewed(status_peers, statuses)]_vars

\* A poll has seen P1's PING and STATUS deadlines expire before P2's: it
\* yielded Ping(P1), Status(P1) is queued, and P1 is behind P2 in both sets.
C18_Witness ==
    /\ last.op = "poll_next"
    /\ last.yielded = Event("Ping", "P1")
    /\ events = <<Event("Status", "P1")>>
    /\ ping_peers = <<"P2", "P1">>
    /\ status_peers = <<"P2", "P1">>

----------------------------------------------------------------------------
(* addresses_of_peer *)

MaxComponents == 2
MaxAddrs == 2

\* The protocols of a Multiaddr's components.
MProtocol == {"Ip4", "Tcp", "Udp"}

\* A Multiaddr is the sequence of its components.
Multiaddrs == SeqsUpTo(MProtocol, MaxComponents) \ {<<>>}

\* What discovery.enr_of_peer answers: no record, or a record, of which
\* enr.multiaddr() is the list of its multiaddrs.
EnrOfPeer ==
    {NoneOpt} \cup {Some(out_list) : out_list \in SeqsUpTo(Multiaddrs, MaxAddrs)}

\* addr.iter().find(|v| matches!(v, MProtocol::Udp(_)))
RECURSIVE find_udp(_)
find_udp(addr) ==
    IF addr = <<>> THEN NoneOpt
    ELSE IF Head(addr) = "Udp" THEN Some(Head(addr))
    ELSE find_udp(Tail(addr))

retained_first_component(addr) == Head(addr) # "Udp"

\* The closure of out_list.retain: the addresses that are kept.
retained(addr) == find_udp(addr) = NoneOpt

RECURSIVE retain(_)
retain(out_list) ==
    IF out_list = <<>> THEN <<>>
    ELSE IF retained(Head(out_list))
         THEN <<Head(out_list)>> \o retain(Tail(out_list))
         ELSE retain(Tail(out_list))

addresses_of_peer(id, enr) ==
    /\ last' = [Call("addresses_of_peer", id) EXCEPT
                    !.enr = enr,
                    !.addrs = IF enr # NoneOpt THEN retain(enr[1]) ELSE <<>>]
    /\ UNCHANGED <<peers, ping_peers, status_peers, events>>

\* The specification of addresses_of_peer: a manager is asked once for the
\* addresses of a peer, of which discovery knows any record or none.
InitAddr ==
    /\ peers = [id \in {} |-> PeerInfo_default]
    /\ ping_peers = <<>>
    /\ status_peers = <<>>
    /\ events = <<>>
    /\ \E id \in RepPeers, enr \in EnrOfPeer :
           last = [NoCall EXCEPT !.peer = id, !.enr = enr]

AddressesOfPeer == last.op = "new" /\ addresses_of_peer(last.peer, last.enr)

NextAddr == AddressesOfPeer

SpecAddr == InitAddr /\ [][NextAddr]_vars

HasUdp(addr) == \E i \in 1..Len(addr) : addr[i] = "Udp"

\* C20: addresses_of_peer returns the multiaddrs of the peer's record without
\* those that have a UDP component, the others in their order, returns the
\* empty list if there is no record, and changes no state of the manager.
C20_AddressesOfPeer ==
    [][last'.op = "addresses_of_peer" =>
          /\ last'.addrs =
                 IF last'.enr = NoneOpt THEN <<>>
                 ELSE LET NoUdp(addr) == ~HasUdp(addr)
                      IN SelectSeq(last'.enr[1], NoUdp)
          /\ last'.enr = last.enr
          /\ UNCHANGED <<peers, ping_peers, status_peers, events>>]_vars

\* A record with a UDP address ahead of a TCP address has been filtered: the
\* TCP address alone is returned.
C20_Witness ==
    /\ last.op = "addresses_of_peer"
    /\ last.enr = Some(<<<<"Ip4", "Udp">>, <<"Ip4", "Tcp">>>>)
    /\ last.addrs = <<<<"Ip4", "Tcp">>>>

----------------------------------------------------------------------------
(* Bans *)

ToleranceErrors == {"LowToleranceError", "MidToleranceError", "HighToleranceError"}

\* C21: a report_peer with LowToleranceError, MidToleranceError or
\* HighToleranceError of a peer that is Banned with reputation 0 leaves the
\* peer Banned with reputation 0.
C21_BanIsMonotonic ==
    (/\ last.op = "report_peer"
     /\ last.pre = "Banned"
     /\ last.pre_rep = 0
     /\ last.action \in ToleranceErrors)
        => /\ last.peer \in DOMAIN peers
           /\ peers[last.peer].connection_status = Banned
           /\ peers[last.peer].reputation = 0

\* A HighToleranceError has been reported of a peer banned at reputation 0.
C21_Witness ==
    /\ last.op = "report_peer"
    /\ last.pre = "Banned"
    /\ last.pre_rep = 0
    /\ last.action = "HighToleranceError"
    /\ StatusTag(peers, last.peer) = "Banned"

----------------------------------------------------------------------------
(* The specification of the directive queue: P1 connects and disconnects,
   discovery reports address updates and finds P2, deadlines pass, and the
   consumer polls. *)

MaxReady == 2
MaxQueueEvents == 2

\* The events discovery can have ready.
DiscoveryEvents ==
    {SocketUpdated(addr) : addr \in Addrs}
        \cup {QueryResult(NoneOpt, <<"P2">>)}

QueueReady == SeqsUpTo(DiscoveryEvents, MaxReady)

QueueConnectIngoing == \E id \in RepPeers : connect_ingoing(id)
QueueNotifyDisconnect == \E id \in RepPeers : notify_disconnect(id)
QueuePoll ==
    \E ready \in QueueReady, pings \in 0..Len(ping_peers),
       statuses \in 0..Len(status_peers) :
        poll_next(0, ready, pings, statuses) /\ Len(events') <= MaxQueueEvents

NextQueue ==
    \/ QueueConnectIngoing
    \/ QueueNotifyDisconnect
    \/ QueuePoll

SpecQueue == Init /\ [][NextQueue]_vars

\* The consumer of the stream polls it again and again.
FairSpecQueue == SpecQueue /\ WF_vars(QueuePoll)

RECURSIVE Concat(_)
Concat(seqs) == IF seqs = <<>> THEN <<>> ELSE Head(seqs) \o Concat(Tail(seqs))

\* The directives the discovery events of a poll stand for, in their order
\* (no event changes what a later one of the same poll is tested against).
Discovered(ready) ==
    LET Wanted(id) ==
            /\ connected_or_dialing_peers(peers) < target_peers
            /\ StatusTag(peers, id) \notin {"Dialing", "Connected", "Banned"}
        Of(event) ==
            IF event.kind = "SocketUpdated"
            THEN <<Event("SocketUpdated", event.addr)>>
            ELSE LET dialed == SelectSeq(event.enrs, Wanted)
                 IN [i \in 1..Len(dialed) |-> Event("Dial", dialed[i])]
    IN Concat([i \in 1..Len(ready) |-> Of(ready[i])])

\* The queue after the passes of a poll: what was queued, then the directives
\* of discovery, then those of the PING and then of the STATUS deadlines.
Enqueued(ready, pings, statuses) ==
    events \o Discovered(ready)
           \o Expired(ping_peers, pings, "Ping")
           \o Expired(status_peers, statuses, "Status")

\* C22: a poll enqueues the directives of discovery before those of the PING
\* deadlines and those before the ones of the STATUS deadlines, behind what
\* was queued; it yields the first of that queue and leaves the rest, in
\* order, so that a directive is yielded once and in the order of enqueueing.
C22_DirectiveOrder ==
    [][last'.op = "poll_next" =>
          \A ready \in QueueReady, pings \in 0..Len(ping_peers),
             statuses \in 0..Len(status_peers) :
              poll_next(0, ready, pings, statuses) =>
                  LET queue == Enqueued(ready, pings, statuses)
                  IN IF queue = <<>>
                     THEN events' = <<>>
                     ELSE /\ last'.yielded = Head(queue)
                          /\ events' = Tail(queue)]_vars

\* One poll has seen an address update, a PING and a STATUS deadline: it
\* yielded SocketUpdated and left Ping(P1) ahead of Status(P1).
C22_Witness ==
    /\ last.op = "poll_next"
    /\ last.yielded.ev = "SocketUpdated"
    /\ events = <<Event("Ping", "P1"), Event("Status", "P1")>>

\* The directives of the stream.
Directives ==
    {"Dial", "SocketUpdated", "Status", "Ping", "MetaData", "DisconnectPeer"}

\* C23: a poll returns one directive if the queue is not empty after its
\* passes and takes that one directive off the queue; it returns Pending if
\* and only if the queue is empty then, and never the end of the stream.
C23_YieldsOne ==
    [][last'.op = "poll_next" =>
          /\ last'.yielded.ev \in Directives \cup {Pending}
          /\ \A ready \in QueueReady, pings \in 0..Len(ping_peers),
                statuses \in 0..Len(status_peers) :
                 poll_next(0, ready, pings, statuses) =>
                     LET n == Len(Enqueued(ready, pings, statuses))
                     IN /\ last'.yielded.ev = Pending <=> n = 0
                        /\ Len(events') = IF n = 0 THEN 0 ELSE n - 1
                        /\ n > 0 =>
                               last'.yielded
                                   = Enqueued(ready, pings, statuses)[1]]_vars

\* A poll that found P2 and an address update has yielded Dial(P2) alone:
\* SocketUpdated is still queued.
C23_Witness ==
    /\ last.op = "poll_next"
    /\ last.yielded = Event("Dial", "P2")
    /\ Len(events) = 1
    /\ events[1].ev = "SocketUpdated"

----------------------------------------------------------------------------
(* What the queue holds *)

\* C24: a Ping(p) or Status(p) that a poll yields is of a peer that is
\* Connected when it is yielded.
C24_PingsAreOfConnected ==
    (last.op = "poll_next" /\ last.yielded.ev \in {"Ping", "Status"})
        => StatusTag(peers, last.yielded.id) = "Connected"

\* C25: the queue never holds two Dial directives of the same peer.
C25_OneDialPerPeer ==
    \A i, j \in 1..Len(events) :
        (events[i].ev = "Dial" /\ events[i] = events[j]) => i = j

\* The directives the queue can hold.
QueueDirectives == {Event(ev, id) : ev \in Directives, id \in Peers \cup Addrs}

\* C26: while the consumer keeps polling, every directive in the queue is
\* eventually yielded, whatever the polls append behind it.
C26_QueueIsLive ==
    \A directive \in QueueDirectives :
        [](InSeq(events, directive)
               => <>(last.op = "poll_next" /\ last.yielded = directive))

\* Status(P1), queued by an earlier poll (P1 has no timer any more), has been
\* yielded by a poll that queued an address update behind it.
C26_Witness ==
    /\ last.op = "poll_next"
    /\ last.yielded = Event("Status", "P1")
    /\ status_peers = <<>>
    /\ Len(events) = 1
    /\ events[1].ev = "SocketUpdated"

====
